---- MODULE Spec2Model ----
(***************************************************************************)
(* Model of the sidecar tools of delete_jpg_if_raw_exists:                 *)
(*   migrate_darktable_to_capture1_sidecar.py   (classifier, patch engine, *)
(*                                               process_file, main)       *)
(*   delete_photos_with_darktable_negative_rating.py (process_file)        *)
(*                                                                         *)
(* A sidecar text is a sequence of lines plus the fact whether the text    *)
(* ends with a line terminator.  A line is its indentation and the XML     *)
(* tokens on it, so that str.splitlines / list.index / '\n'.join work on   *)
(* lines while ElementTree works on the token stream of the same text.     *)
(***************************************************************************)
EXTENDS Integers, Sequences, FiniteSets, TLC

(* ------------------------------ bounds -------------------------------- *)

\* number of distinct keywords that may occur in sidecars
NKeywords == 2

KeywordSeq == <<"a", "b", "c", "d">>

Keywords == {KeywordSeq[i] : i \in 1..NKeywords}

\* the rating values that occur in sidecars (spec: semantic range -1..5)
Ratings == -1..5

(* --------------------------- Optional[T] ------------------------------ *)

\* Python's None / a present value, as the empty / a singleton set
None == {}

Some(x) == {x}

Val(o) == CHOOSE x \in o : TRUE

(* ------------------- results of calls that may raise ------------------ *)

Return(v) == [exc |-> "", val |-> v]

Raise(e, v) == [exc |-> e, val |-> v]

(* ------------------------ str(int) and int(str) ----------------------- *)

\* f"{dt.rating}": the decimal text of an int
RatingText == (-1 :> "-1") @@ (0 :> "0") @@ (1 :> "1") @@ (2 :> "2") @@
              (3 :> "3") @@ (4 :> "4") @@ (5 :> "5")

\* int(text): the value, or ValueError/TypeError for a text that is no number
\* ("" stands for a missing attribute, i.e. int(None))
IntOf(text) ==
  IF \E r \in Ratings : RatingText[r] = text
  THEN Return(CHOOSE r \in Ratings : RatingText[r] = text)
  ELSE Raise(IF text = "" THEN "TypeError" ELSE "ValueError", 0)

(* ------------------------- XmpData, the enum -------------------------- *)

XmpData(rating, keywords) == [rating |-> rating, keywords |-> keywords]

YES == "YES"

NO == "NO"

CONFLICT == "CONFLICT"

MERGE == "MERGE"

(* --------------------------- sidecar texts ---------------------------- *)

Open(n, attr) == [k |-> "open", n |-> n, t |-> attr]

Close(n) == [k |-> "close", n |-> n, t |-> ""]

Elem(n, text) == [k |-> "elem", n |-> n, t |-> text]

Line(ind, toks) == [ind |-> ind, toks |-> toks]

Text(lines, nl) == [lines |-> lines, nl |-> nl]

\* str.splitlines(): the lines, without the terminators
splitlines(content) == content.lines

\* '\n'.join(lines): no terminator after the last line
join(lines) == Text(lines, FALSE)

\* list.index(x): position of the first occurrence, 0 for ValueError
IndexOf(seq, x) ==
  IF \E i \in 1..Len(seq) : seq[i] = x
  THEN CHOOSE i \in 1..Len(seq) : seq[i] = x /\ \A j \in 1..(i-1) : seq[j] # x
  ELSE 0

\* list.insert(i, ...) of the lines `new` before position i
InsertAt(seq, i, new) == SubSeq(seq, 1, i-1) \o new \o SubSeq(seq, i, Len(seq))

\* for _ in range(e - s + 1): list.pop(s)
PopRange(seq, s, e) ==
  IF e < s THEN seq ELSE SubSeq(seq, 1, s-1) \o SubSeq(seq, e+1, Len(seq))

\* the marker lines the patch engine searches for
DescCloseLine == Line(2, <<Close("rdf:Description")>>)

SubjectOpenLine == Line(3, <<Open("dc:subject", "")>>)

SubjectCloseLine == Line(3, <<Close("dc:subject")>>)

HierOpenLine == Line(3, <<Open("lightroom:hierarchicalSubject", "")>>)

HierCloseLine == Line(3, <<Close("lightroom:hierarchicalSubject")>>)

\* f"   <xmp:Rating>{dt.rating}</xmp:Rating>"
RatingLine(r) == Line(3, <<Elem("xmp:Rating", RatingText[r])>>)

\* f"     <rdf:li>{kw}</rdf:li>"
LiLine(kw) == Line(5, <<Elem("rdf:li", kw)>>)

(* ------------------------ ElementTree on a text ----------------------- *)

RECURSIVE Flatten(_)
Flatten(lines) ==
  IF lines = <<>> THEN <<>> ELSE Head(lines).toks \o Flatten(Tail(lines))

\* the token stream ET.parse sees
TokensOf(content) == Flatten(content.lines)

\* positions of the child elements of the element opened at position i-1,
\* scanning from i at nesting depth d
RECURSIVE ScanChildren(_, _, _, _)
ScanChildren(toks, i, d, acc) ==
  IF i > Len(toks) THEN acc
  ELSE IF toks[i].k = "close"
       THEN IF d = 0 THEN acc ELSE ScanChildren(toks, i+1, d-1, acc)
  ELSE IF toks[i].k = "open"
       THEN ScanChildren(toks, i+1, d+1, IF d = 0 THEN Append(acc, i) ELSE acc)
  ELSE ScanChildren(toks, i+1, d, IF d = 0 THEN Append(acc, i) ELSE acc)

\* list(element): an element written <n>text</n> on one line has no children
Children(toks, i) ==
  IF toks[i].k = "open" THEN ScanChildren(toks, i+1, 0, <<>>) ELSE <<>>

\* element.find(name): the first child with that tag, 0 for None
Find(toks, i, name) ==
  LET cs == Children(toks, i)
  IN IF \E j \in 1..Len(cs) : toks[cs[j]].n = name
     THEN cs[CHOOSE j \in 1..Len(cs) :
                toks[cs[j]].n = name /\ \A h \in 1..(j-1) : toks[cs[h]].n # name]
     ELSE 0

\* tree.getroot()[0][0]: position of the rdf:Description element, 0 for IndexError
RdfDescription(toks) ==
  IF toks = <<>> THEN 0
  ELSE LET c1 == Children(toks, 1)
       IN IF c1 = <<>> THEN 0
          ELSE LET c2 == Children(toks, c1[1])
               IN IF c2 = <<>> THEN 0 ELSE c2[1]

\* frozenset(map(lambda e: e.text, subject[0])) if subject else frozenset()
SubjectKeywords(toks, d) ==
  LET subject == Find(toks, d, "dc:subject")
  IN IF subject = 0 \/ Children(toks, subject) = <<>> THEN {}
     ELSE LET bag == Children(toks, subject)[1]
              lis == Children(toks, bag)
          IN {toks[lis[j]].t : j \in 1..Len(lis)}

read_dt_xmp_data(content) ==
  LET toks == TokensOf(content)
      d == RdfDescription(toks)
  IN IF d = 0 THEN Raise("IndexError", XmpData(None, {}))
     ELSE LET parsed == IntOf(toks[d].t)
          IN IF parsed.exc # "" THEN Raise(parsed.exc, XmpData(None, {}))
             ELSE Return(XmpData(IF parsed.val = 1 THEN None ELSE Some(parsed.val),
                                 SubjectKeywords(toks, d)))

read_c1_xmp_data(content) ==
  LET toks == TokensOf(content)
      d == RdfDescription(toks)
  IN IF d = 0 THEN Raise("IndexError", XmpData(None, {}))
     ELSE LET rating == Find(toks, d, "xmp:Rating")
              parsed == IF rating = 0 THEN Return(0) ELSE IntOf(toks[rating].t)
          IN IF parsed.exc # "" THEN Raise(parsed.exc, XmpData(None, {}))
             ELSE Return(XmpData(IF rating = 0 THEN None ELSE Some(parsed.val),
                                 SubjectKeywords(toks, d)))

(* ------------------------------ classifier ---------------------------- *)

\* the classifier with the keyword test ahead of the rating conflict test
check_requires_migration_keywords_first(dt, c1) ==
  IF dt.keywords \ c1.keywords # {}
  THEN IF c1.keywords # {} THEN MERGE ELSE YES
  ELSE IF dt.rating # None /\ c1.rating # None /\ Val(dt.rating) # Val(c1.rating)
  THEN CONFLICT
  ELSE IF dt.rating # None /\ c1.rating = None THEN YES
  ELSE NO

check_requires_migration(dt, c1) ==
  IF dt.rating # None /\ c1.rating # None /\ Val(dt.rating) # Val(c1.rating)
  THEN CONFLICT
  ELSE IF dt.keywords \ c1.keywords # {}
       THEN IF c1.keywords # {} THEN MERGE ELSE YES
  ELSE IF dt.rating # None /\ c1.rating = None THEN YES
  ELSE NO

(* ----------------------------- patch engine --------------------------- *)

\* the rating splice without the test for a rating the target already has
do_migrate_rating_unguarded(dt, c1, content) ==
  IF dt.rating = None THEN Return(content)
  ELSE LET content_lines == splitlines(content)
           insert_index == IndexOf(content_lines, DescCloseLine)
       IN IF insert_index = 0 THEN Raise("ValueError", content)
          ELSE Return(join(InsertAt(content_lines, insert_index,
                                    <<RatingLine(Val(dt.rating))>>)))

do_migrate_rating(dt, c1, content) ==
  IF dt.rating = None \/ c1.rating # None THEN Return(content)
  ELSE LET content_lines == splitlines(content)
           insert_index == IndexOf(content_lines, DescCloseLine)
       IN IF insert_index = 0 THEN Raise("ValueError", content)
          ELSE Return(join(InsertAt(content_lines, insert_index,
                                    <<RatingLine(Val(dt.rating))>>)))

\* "   <tag>\n    <rdf:Bag>" + '\n'.join(li lines) + "    </rdf:Bag>\n   </tag>",
\* as the lines this string makes once joined into the text: the first leaf
\* shares its line with <rdf:Bag>, the last with </rdf:Bag>
KeywordBlock(tag, order) ==
  LET n == Len(order)
      li(i) == Elem("rdf:li", order[i])
      bagLines ==
        IF n = 1
        THEN <<Line(4, <<Open("rdf:Bag", ""), li(1), Close("rdf:Bag")>>)>>
        ELSE <<Line(4, <<Open("rdf:Bag", ""), li(1)>>)>>
             \o [i \in 1..(n-2) |-> LiLine(order[i+1])]
             \o <<Line(5, <<li(n), Close("rdf:Bag")>>)>>
  IN <<Line(3, <<Open(tag, "")>>)>> \o bagLines \o <<Line(3, <<Close(tag)>>)>>

\* `order` is the iteration order of the frozenset dt.keywords.union(c1.keywords)
do_migrate_keywords(dt, c1, content, order) ==
  LET new_keywords == dt.keywords \ c1.keywords
      \* lines 147-149: built, then overwritten by line 150
      dc_lines == KeywordBlock("dc:subject", order)
      new_lines == KeywordBlock("lightroom:hierarchicalSubject", order)
      content_lines == splitlines(content)
      merge == check_requires_migration(dt, c1) = MERGE
      s1 == IndexOf(content_lines, SubjectOpenLine)
      e1 == IndexOf(content_lines, SubjectCloseLine)
      lines1 == IF merge THEN PopRange(content_lines, s1, e1) ELSE content_lines
      s2 == IndexOf(lines1, HierOpenLine)
      e2 == IndexOf(lines1, HierCloseLine)
      lines2 == IF merge THEN PopRange(lines1, s2, e2) ELSE lines1
      insert_index == IndexOf(lines2, DescCloseLine)
  IN IF new_keywords = {} THEN Return(content)
     ELSE IF merge /\ (s1 = 0 \/ e1 = 0 \/ s2 = 0 \/ e2 = 0)
          THEN Raise("ValueError", content)
     ELSE IF insert_index = 0 THEN Raise("ValueError", content)
     ELSE Return(join(InsertAt(lines2, insert_index, new_lines)))

\* the possible iteration orders of a frozenset of strings
Orders(S) ==
  {o \in [1..Cardinality(S) -> S] : \A i, j \in 1..Cardinality(S) : o[i] = o[j] => i = j}

\* read_text, both splices, write_text: the new content, or the exception
\* raised before write_text is reached
do_migrate(dt, c1, content, order) ==
  LET r == do_migrate_rating(dt, c1, content)
  IN IF r.exc # "" THEN r ELSE do_migrate_keywords(dt, c1, r.val, order)

(* --------------------------- sidecar families ------------------------- *)

\* the keywords of K in the order a tool wrote them
RECURSIVE SeqOfSet(_, _)
SeqOfSet(K, i) ==
  IF i > Len(KeywordSeq) THEN <<>>
  ELSE (IF KeywordSeq[i] \in K THEN <<KeywordSeq[i]>> ELSE <<>>) \o SeqOfSet(K, i+1)

\* a keyword container as the tools write it, one element per line
ContainerLines(tag, K) ==
  LET ks == SeqOfSet(K, 1)
  IN <<Line(3, <<Open(tag, "")>>), Line(4, <<Open("rdf:Bag", "")>>)>>
     \o [i \in 1..Len(ks) |-> LiLine(ks[i])]
     \o <<Line(4, <<Close("rdf:Bag")>>), Line(3, <<Close(tag)>>)>>

\* A sidecar: attr is the xmp:Rating attribute text of rdf:Description ("" when
\* it has none), rating the optional xmp:Rating element, subj the optional
\* keyword set of the dc:subject container, hier whether the
\* lightroom:hierarchicalSubject container is there too, closeInd the
\* indentation of the </rdf:Description> line, nl the final line terminator.
Sidecar(attr, rating, subj, hier, closeInd, nl) ==
  Text(<<Line(0, <<Open("x:xmpmeta", "")>>),
         Line(1, <<Open("rdf:RDF", "")>>),
         Line(2, <<Open("rdf:Description", attr)>>),
         Line(3, <<Elem("xmp:CreatorTool", "tool")>>)>>
       \o (IF rating = None THEN <<>> ELSE <<RatingLine(Val(rating))>>)
       \o (IF subj = None THEN <<>> ELSE ContainerLines("dc:subject", Val(subj)))
       \o (IF hier /\ subj # None
           THEN ContainerLines("lightroom:hierarchicalSubject", Val(subj))
           ELSE <<>>)
       \o <<Line(3, <<Elem("photoshop:DateCreated", "date")>>),
            Line(closeInd, <<Close("rdf:Description")>>),
            Line(1, <<Close("rdf:RDF")>>),
            Line(0, <<Close("x:xmpmeta")>>)>>,
       nl)

OptRatings == {None} \cup {Some(r) : r \in Ratings}

OptSubjects == {None} \cup {Some(K) : K \in SUBSET Keywords}

AttrTexts == {""} \cup {RatingText[r] : r \in Ratings}

\* darktable sidecars: rating attribute, keywords in dc:subject
DtSidecars ==
  {Sidecar(a, None, s, FALSE, 2, TRUE) : a \in AttrTexts, s \in OptSubjects}

\* Capture One sidecars: rating element, both keyword containers or dc:subject alone
C1Sidecars ==
  {Sidecar("", r, sh[1], sh[2], ci, nl) :
     r \in OptRatings,
     sh \in {x \in OptSubjects \X BOOLEAN : x[1] = None => ~x[2]},
     ci \in {1, 2}, nl \in BOOLEAN}

(* ------------------------------ file names ---------------------------- *)

\* A file name is the sequence of its parts between dots: "a.ARW.xmp" is
\* <<"a", "ARW", "xmp">> and the hidden file ".ARW.xmp" is <<"", "ARW", "xmp">>.

\* fnmatch.fnmatch(file, '*.ARW.xmp')
FnMatchArwXmp(file) ==
  /\ Len(file) >= 3
  /\ file[Len(file) - 1] = "ARW"
  /\ file[Len(file)] = "xmp"

\* PurePath.suffix is non-empty: the last dot is neither the first nor the
\* last character of the name
HasSuffix(file) ==
  /\ Len(file) >= 2
  /\ file[Len(file)] # ""
  /\ ~(Len(file) = 2 /\ file[1] = "")

\* PurePath.with_suffix(ext), ext given without its dot ("" removes the suffix)
with_suffix(file, ext) ==
  LET stem == IF HasSuffix(file) THEN SubSeq(file, 1, Len(file) - 1) ELSE file
  IN IF ext = "" THEN stem ELSE Append(stem, ext)

\* dt_xmp_file_path.with_suffix("").with_suffix(".xmp")
C1Path(file) == with_suffix(with_suffix(file, ""), "xmp")

(* ----------------------- process_file (migration) --------------------- *)

ReportLine(path, d, c, tag, merge) ==
  [path |-> path, dt |-> d, c1 |-> c, tag |-> tag, merge |-> merge]

NoText == Text(<<>>, FALSE)

NoData == XmpData(None, {})

\* what one call did: the file system it leaves, the lines it printed, the
\* exception it let escape, and what it saw on the way
Outcome(fsys, lines, exc, seen) ==
  [fs |-> fsys, lines |-> lines, exc |-> exc, seen |-> seen]

Seen(existed, extracted, d, c, rm, wrote) ==
  [existed |-> existed, extracted |-> extracted, dt |-> d, c1 |-> c,
   outcome |-> rm, wrote |-> wrote]

\* the keywords whose frozenset iteration order the call depends on
PairKeywords(fsys, file) ==
  IF C1Path(file) \notin DOMAIN fsys THEN {}
  ELSE read_dt_xmp_data(fsys[file]).val.keywords
         \cup read_c1_xmp_data(fsys[C1Path(file)]).val.keywords

\* lines 68-72: the pair requires migration
migrate_or_show(fsys, path, d, c, rm, migrate, m) ==
  IF migrate
  THEN IF m.exc # ""
       THEN Outcome(fsys, <<>>, m.exc, Seen(TRUE, TRUE, d, c, rm, FALSE))
       ELSE Outcome([fsys EXCEPT ![path] = m.val],
                    <<ReportLine(path, d, c, "(migrate)", rm = MERGE)>>, "",
                    Seen(TRUE, TRUE, d, c, rm, TRUE))
  ELSE Outcome(fsys, <<ReportLine(path, d, c, "(show)", rm = MERGE)>>, "",
               Seen(TRUE, TRUE, d, c, rm, FALSE))

\* lines 63-72: rm is the value of requires_migration
report(fsys, path, d, c, rm, migrate, order) ==
  IF rm # YES
  THEN Outcome(fsys,
               IF rm = CONFLICT
               THEN <<ReportLine(path, d, c, "(conflict)", FALSE)>> ELSE <<>>,
               "", Seen(TRUE, TRUE, d, c, rm, FALSE))
  ELSE migrate_or_show(fsys, path, d, c, rm, migrate,
                       do_migrate(d, c, fsys[path], order))

\* lines 59-72: d and c are what the two extractors returned or raised
process_pair(fsys, path, d, c, migrate, order) ==
  IF d.exc # ""
  THEN Outcome(fsys, <<>>, d.exc, Seen(TRUE, FALSE, NoData, NoData, "", FALSE))
  ELSE IF c.exc # ""
  THEN Outcome(fsys, <<>>, c.exc, Seen(TRUE, FALSE, NoData, NoData, "", FALSE))
  ELSE report(fsys, path, d.val, c.val, check_requires_migration(d.val, c.val),
              migrate, order)

process_file(fsys, file, migrate, order) ==
  IF C1Path(file) \notin DOMAIN fsys
  THEN Outcome(fsys, <<ReportLine(C1Path(file), NoData, NoData, "warning", FALSE)>>,
               "", Seen(FALSE, FALSE, NoData, NoData, "", FALSE))
  ELSE process_pair(fsys, C1Path(file), read_dt_xmp_data(fsys[file]),
                    read_c1_xmp_data(fsys[C1Path(file)]), migrate, order)

(* ------------------------- directories of a run ----------------------- *)

SrcA == <<"a", "ARW", "xmp">>

HiddenSrc == <<"", "ARW", "ARW", "xmp">>

HiddenArw == <<"", "ARW", "xmp">>

RunNames == {SrcA, C1Path(SrcA), HiddenSrc, HiddenArw}

Kw1 == {KeywordSeq[1]}

Kw2 == {KeywordSeq[2]}

\* darktable sidecars of a run: no rating attribute, rating unset (1) or 3
RunDtSidecars ==
  {Sidecar(a, None, s, FALSE, 2, TRUE) :
     a \in {"", RatingText[1], RatingText[3]}, s \in {None, Some(Kw1)}}

\* Capture One sidecars of a run; closeInd 1 is a text without the line
\* "  </rdf:Description>"
RunC1Sidecars ==
  {Sidecar("", r, s, s # None, ci, TRUE) :
     r \in {None, Some(5)}, s \in {None, Some(Kw2)}, ci \in {1, 2}}

\* a hidden file named ".ARW.ARW.xmp"
RunHiddenSources ==
  {Sidecar(RatingText[1], None, Some(Kw1), FALSE, 2, TRUE),
   Sidecar(RatingText[3], None, None, FALSE, 2, TRUE)}

\* a hidden file named ".ARW.xmp": matched as a darktable sidecar and, by
\* C1Path, the Capture One sidecar of itself and of ".ARW.ARW.xmp"
RunHiddenSidecars ==
  {Sidecar(a, None, None, FALSE, 2, TRUE) : a \in {RatingText[1], RatingText[3]}}

Opt(S) == {None} \cup {Some(x) : x \in S}

\* the directory holding the files given (None: no such file)
Directory(a, b, c, d) ==
  LET given == (SrcA :> a) @@ (C1Path(SrcA) :> b) @@ (HiddenSrc :> c) @@ (HiddenArw :> d)
  IN [n \in {x \in RunNames : given[x] # None} |-> Val(given[n])]

(* ------------------ process_file (negative-rating deletion) ----------- *)

\* read_dt_xmp_data of delete_photos_with_darktable_negative_rating.py: the
\* same text as the migration tool's
read_dt_xmp_data_del(content) == read_dt_xmp_data(content)

DeleteLine(path, tag) == [path |-> path, tag |-> tag]

\* what one call did; negative says the rating test of line 51 passed
DeleteOutcome(fsys, lines, exc, negative) ==
  [fs |-> fsys, lines |-> lines, exc |-> exc, negative |-> negative]

\* os.remove(path)
Remove(fsys, path) == [n \in DOMAIN fsys \ {path} |-> fsys[n]]

\* if path.exists(): os.remove(path)
RemoveIfExists(fsys, path) == IF path \in DOMAIN fsys THEN Remove(fsys, path) ELSE fsys

\* lines 58-60
delete_photo(fsys, photo_file_path) ==
  IF photo_file_path \in DOMAIN fsys
  THEN DeleteOutcome(Remove(fsys, photo_file_path),
                     <<DeleteLine(photo_file_path, "(delete)")>>, "", TRUE)
  ELSE DeleteOutcome(fsys, <<>>, "", TRUE)

\* lines 51-62: d is what read_dt_xmp_data returned
delete_or_show(fsys, file, d, delete) ==
  IF d.rating # None /\ Val(d.rating) < 0
  THEN IF delete
       THEN delete_photo(RemoveIfExists(RemoveIfExists(Remove(fsys, file), C1Path(file)),
                                        with_suffix(file, "moff")),
                         with_suffix(C1Path(file), "ARW"))
       ELSE DeleteOutcome(fsys, <<DeleteLine(with_suffix(C1Path(file), "ARW"), "(show)")>>,
                          "", TRUE)
  ELSE DeleteOutcome(fsys, <<>>, "", FALSE)

\* lines 49-62: r is what read_dt_xmp_data returned or raised
delete_checked(fsys, file, r, delete) ==
  IF r.exc # "" THEN DeleteOutcome(fsys, <<>>, r.exc, FALSE)
  ELSE delete_or_show(fsys, file, r.val, delete)

process_file_delete(fsys, file, delete) ==
  delete_checked(fsys, file, read_dt_xmp_data_del(fsys[file]), delete)

(* --------------------- directories of a deletion run ------------------ *)

SrcB == <<"b", "ARW", "xmp">>

MoffA == with_suffix(SrcA, "moff")

PhotoA == with_suffix(C1Path(SrcA), "ARW")

DeleteNames == {SrcA, C1Path(SrcA), MoffA, PhotoA, SrcB}

\* darktable sidecars of a deletion run: no rating attribute, rejected (-1),
\* 0 or unset (1)
DeleteDtSidecars ==
  {Sidecar(a, None, None, FALSE, 2, TRUE) :
     a \in {"", RatingText[-1], RatingText[0], RatingText[1]}}

\* the directory holding the sidecars given and the companions named
DeleteDirectory(a, b, companions) ==
  LET given == (SrcA :> a) @@ (SrcB :> b)
      names == {x \in {SrcA, SrcB} : given[x] # None} \cup companions
  IN [n \in names |-> IF n \in {SrcA, SrcB} THEN Val(given[n])
                      ELSE IF n = C1Path(SrcA)
                           THEN Sidecar("", None, None, FALSE, 2, TRUE)
                           ELSE NoText]

(* ------------------------------- state -------------------------------- *)

VARIABLES
  \* one sidecar pair taken through extraction, classification and patching
  stage,      \* "off", "paired", "extracted", "classified", "rated", "patched", "reread", "failed"
  src,        \* text of the darktable sidecar
  tgt,        \* text of the Capture One sidecar before patching
  dt,         \* read_dt_xmp_data(src)
  c1,         \* read_c1_xmp_data(tgt)
  outcome,    \* check_requires_migration(dt, c1)
  rated,      \* what do_migrate_rating returned or raised
  patched,    \* what do_migrate_keywords returned or raised
  again,      \* the record and the outcome read back from the patched text
  \* one run of main over a directory
  fs,         \* the directory: file name -> text
  todo,       \* the files os.walk listed that the loop has not reached yet
  mode,       \* --migrate (or --delete) was given
  out,        \* the lines printed so far
  writes,     \* file name -> number of write_text calls on it
  status,     \* "off", "running", "done", "crashed" (an exception left main)
  ev          \* the last process_file call: its file, what it saw and did

pairVars == <<stage, src, tgt, dt, c1, outcome, rated, patched, again>>

runVars == <<fs, todo, mode, out, writes, status, ev>>

vars == <<pairVars, runVars>>

NoAgain == [exc |-> "", c1 |-> NoData, outcome |-> NO]

NoEvent == [file |-> <<>>]

PairOff ==
  /\ stage = "off"
  /\ src = NoText
  /\ tgt = NoText
  /\ dt = NoData
  /\ c1 = NoData
  /\ outcome = NO
  /\ rated = Return(NoText)
  /\ patched = Return(NoText)
  /\ again = NoAgain

RunOff ==
  /\ fs = <<>>
  /\ todo = {}
  /\ mode = FALSE
  /\ out = <<>>
  /\ writes = <<>>
  /\ status = "off"
  /\ ev = NoEvent

(* ------------- one pair: extract, classify, patch, read back ---------- *)

PairInit ==
  /\ stage = "paired"
  /\ src \in DtSidecars
  /\ tgt \in C1Sidecars
  /\ dt = NoData
  /\ c1 = NoData
  /\ outcome = NO
  /\ rated = Return(NoText)
  /\ patched = Return(NoText)
  /\ again = NoAgain
  /\ RunOff

\* process_file lines 59-60
Extract ==
  /\ stage = "paired"
  /\ LET d == read_dt_xmp_data(src)
         c == read_c1_xmp_data(tgt)
     IN /\ dt' = d.val
        /\ c1' = c.val
        /\ stage' = IF d.exc # "" \/ c.exc # "" THEN "failed" ELSE "extracted"
  /\ UNCHANGED <<src, tgt, outcome, rated, patched, again>>
  /\ UNCHANGED runVars

\* process_file line 62
Classify ==
  /\ stage = "extracted"
  /\ outcome' = check_requires_migration(dt, c1)
  /\ stage' = "classified"
  /\ UNCHANGED <<src, tgt, dt, c1, rated, patched, again>>
  /\ UNCHANGED runVars

\* do_migrate line 122
MigrateRating ==
  /\ stage = "classified"
  /\ rated' = do_migrate_rating(dt, c1, tgt)
  /\ stage' = IF rated'.exc # "" THEN "failed" ELSE "rated"
  /\ UNCHANGED <<src, tgt, dt, c1, outcome, patched, again>>
  /\ UNCHANGED runVars

\* do_migrate line 123
MigrateKeywords ==
  /\ stage = "rated"
  /\ \E order \in Orders(dt.keywords \cup c1.keywords) :
       patched' = do_migrate_keywords(dt, c1, rated.val, order)
  /\ stage' = IF patched'.exc # "" THEN "failed" ELSE "patched"
  /\ UNCHANGED <<src, tgt, dt, c1, outcome, rated, again>>
  /\ UNCHANGED runVars

\* the next run's process_file lines 60 and 62 on the patched text
ReadBack ==
  /\ stage = "patched"
  /\ LET c == read_c1_xmp_data(patched.val)
     IN again' = [exc |-> c.exc, c1 |-> c.val,
                  outcome |-> check_requires_migration(dt, c.val)]
  /\ stage' = "reread"
  /\ UNCHANGED <<src, tgt, dt, c1, outcome, rated, patched>>
  /\ UNCHANGED runVars

PairNext == Extract \/ Classify \/ MigrateRating \/ MigrateKeywords \/ ReadBack

SpecPatch == PairInit /\ [][PairNext]_vars

(* --------------------------- a run of main ---------------------------- *)

RunInit ==
  /\ PairOff
  /\ \E a \in Opt(RunDtSidecars), b \in Opt(RunC1Sidecars),
        c \in Opt(RunHiddenSources), d \in Opt(RunHiddenSidecars) :
       fs = Directory(a, b, c, d)
  /\ todo = DOMAIN fs
  /\ mode \in BOOLEAN
  /\ out = <<>>
  /\ writes = [n \in RunNames |-> 0]
  /\ status = "running"
  /\ ev = NoEvent

\* the state after a process_file call that did r
Called(file, target, r) ==
  /\ fs' = r.fs
  /\ out' = out \o r.lines
  /\ writes' = IF r.seen.wrote THEN [writes EXCEPT ![target] = @ + 1] ELSE writes
  /\ status' = IF r.exc # "" THEN "crashed" ELSE "running"
  /\ ev' = [file |-> file, target |-> target, seen |-> r.seen,
            lines |-> r.lines, exc |-> r.exc,
            before |-> IF r.seen.existed THEN fs[target] ELSE NoText,
            after |-> IF r.seen.existed THEN r.fs[target] ELSE NoText]
  /\ todo' = todo \ {file}

\* main lines 35-37, a file that matches '*.ARW.xmp'
ProcessFile ==
  /\ status = "running"
  /\ \E file \in todo :
       /\ FnMatchArwXmp(file)
       /\ \E order \in Orders(PairKeywords(fs, file)) :
            Called(file, C1Path(file), process_file(fs, file, mode, order))
  /\ UNCHANGED <<mode>>
  /\ UNCHANGED pairVars

\* main lines 35-36, a file that does not match
SkipFile ==
  /\ status = "running"
  /\ \E file \in todo :
       /\ ~FnMatchArwXmp(file)
       /\ todo' = todo \ {file}
  /\ UNCHANGED <<fs, mode, out, writes, status, ev>>
  /\ UNCHANGED pairVars

\* main line 35, the traversal is exhausted
Finish ==
  /\ status = "running"
  /\ todo = {}
  /\ status' = "done"
  /\ UNCHANGED <<fs, todo, mode, out, writes, ev>>
  /\ UNCHANGED pairVars

RunNext == ProcessFile \/ SkipFile \/ Finish

SpecRun == RunInit /\ [][RunNext]_vars

(* ----------------------- a run of the deletion tool ------------------- *)

DeleteInit ==
  /\ PairOff
  /\ \E a \in Opt(DeleteDtSidecars), b \in Opt(DeleteDtSidecars),
        companions \in SUBSET {C1Path(SrcA), MoffA, PhotoA} :
       fs = DeleteDirectory(a, b, companions)
  /\ todo = DOMAIN fs
  /\ mode \in BOOLEAN
  /\ out = <<>>
  /\ writes = [n \in DeleteNames |-> 0]
  /\ status = "running"
  /\ ev = NoEvent

\* the state after a process_file call that did r; dry and app are what the
\* call does on the same directory without and with --delete
Deleted(file, r, dry, app) ==
  /\ fs' = r.fs
  /\ out' = out \o r.lines
  /\ status' = IF r.exc # "" THEN "crashed" ELSE "running"
  /\ ev' = [file |-> file, before |-> fs, dry |-> dry, app |-> app]
  /\ todo' = todo \ {file}

\* main lines 27-29 of the deletion tool, a file that matches '*.ARW.xmp'
DeleteFile ==
  /\ status = "running"
  /\ \E file \in todo :
       /\ FnMatchArwXmp(file)
       /\ Deleted(file, process_file_delete(fs, file, mode),
                  process_file_delete(fs, file, FALSE),
                  process_file_delete(fs, file, TRUE))
  /\ UNCHANGED <<mode, writes>>
  /\ UNCHANGED pairVars

DeleteNext == DeleteFile \/ SkipFile \/ Finish

SpecDelete == DeleteInit /\ [][DeleteNext]_vars

(* ===================== claims about one pair (SpecPatch) =============== *)

Classified == stage \in {"classified", "rated", "patched", "reread"}

Patched == stage \in {"patched", "reread"}

RatingConflict == dt.rating # None /\ c1.rating # None /\ dt.rating # c1.rating

\* C3: check_requires_migration is total and equals the first-match-wins
\* policy: unequal present ratings give CONFLICT whatever the keywords; else
\* source keywords the target lacks give MERGE when the target has keywords
\* and YES when it has none; else a source rating with no target rating
\* gives YES; else NO. So equal records give NO, and records with the same
\* keywords never give MERGE.
C3_ClassifierPolicy ==
  Classified =>
    /\ outcome \in {YES, NO, CONFLICT, MERGE}
    /\ RatingConflict => outcome = CONFLICT
    /\ (~RatingConflict /\ dt.keywords \ c1.keywords # {} /\ c1.keywords # {})
         => outcome = MERGE
    /\ (~RatingConflict /\ dt.keywords \ c1.keywords # {} /\ c1.keywords = {})
         => outcome = YES
    /\ (~RatingConflict /\ dt.keywords \ c1.keywords = {}
          /\ dt.rating # None /\ c1.rating = None) => outcome = YES
    /\ (~RatingConflict /\ dt.keywords \ c1.keywords = {}
          /\ ~(dt.rating # None /\ c1.rating = None)) => outcome = NO
    /\ dt = c1 => outcome = NO
    /\ dt.keywords = c1.keywords => outcome # MERGE

\* a rating conflict between records whose keywords would otherwise merge
C3_Witness ==
  /\ stage = "classified"
  /\ RatingConflict
  /\ dt.keywords \ c1.keywords # {}
  /\ c1.keywords # {}
  /\ outcome = CONFLICT

\* the lines of a text that hold an xmp:Rating element
IsRatingLine(l) == \E i \in 1..Len(l.toks) : l.toks[i].n = "xmp:Rating"

RatingLinesOf(content) == SelectSeq(content.lines, IsRatingLine)

\* C5: when the target record has a rating, do_migrate_rating returns the
\* text unchanged and do_migrate leaves the text's rating lines as they were;
\* do_migrate_rating changes the text only when the source rating is present
\* and the target rating absent, and then by inserting exactly one rating
\* line immediately before the closing marker line.
C5_RatingNeverOverwritten ==
  /\ stage \in {"rated", "patched", "reread"} =>
       /\ c1.rating # None => rated.val = tgt
       /\ rated.val # tgt =>
            /\ dt.rating # None /\ c1.rating = None
            /\ LET i == IndexOf(tgt.lines, DescCloseLine)
               IN /\ i # 0
                  /\ Len(rated.val.lines) = Len(tgt.lines) + 1
                  /\ rated.val.lines[i] = RatingLine(Val(dt.rating))
                  /\ rated.val.lines[i+1] = DescCloseLine
                  /\ SubSeq(rated.val.lines, 1, i-1) = SubSeq(tgt.lines, 1, i-1)
                  /\ SubSeq(rated.val.lines, i+1, Len(tgt.lines) + 1)
                       = SubSeq(tgt.lines, i, Len(tgt.lines))
  /\ Patched =>
       /\ c1.rating # None => RatingLinesOf(patched.val) = RatingLinesOf(tgt)
       /\ RatingLinesOf(patched.val) # RatingLinesOf(tgt) =>
            dt.rating # None /\ c1.rating = None

\* a target with a rating that differs from the source's, patched for keywords
C5_Witness ==
  /\ stage = "patched"
  /\ RatingConflict
  /\ patched.val.lines # tgt.lines
  /\ RatingLinesOf(patched.val) = <<RatingLine(Val(c1.rating))>>

\* C2: after the patch has been applied to a pair that required it, reading
\* the patched text back with read_c1_xmp_data and classifying it against
\* the same source record gives NO.
C2_Idempotent ==
  (stage = "reread" /\ outcome \in {YES, MERGE}) =>
    (again.exc = "" /\ again.outcome = NO)

\* positions of the tokens that open a dc:subject container
SubjectOpens(toks) ==
  {i \in 1..Len(toks) : toks[i].k = "open" /\ toks[i].n = "dc:subject"}

\* C6: when the source has keywords the target lacks, the text returned by
\* do_migrate_keywords holds exactly one dc:subject container, it ends
\* immediately before the closing marker line, and the keywords the extractor
\* reads from it are exactly the union of both records' keywords.
C6_KeywordSplice ==
  (Patched /\ dt.keywords \ c1.keywords # {}) =>
    LET toks == TokensOf(patched.val)
        i == IndexOf(patched.val.lines, DescCloseLine)
    IN /\ Cardinality(SubjectOpens(toks)) = 1
       /\ i > 1
       /\ SubjectCloseLine = patched.val.lines[i-1]
       /\ read_c1_xmp_data(patched.val).val.keywords = dt.keywords \cup c1.keywords

KeywordTags == {"dc:subject", "lightroom:hierarchicalSubject", "rdf:Bag", "rdf:li"}

\* a line outside the keyword containers and not a rating line
IsFrameLine(l) ==
  /\ ~IsRatingLine(l)
  /\ \A i \in 1..Len(l.toks) : l.toks[i].n \notin KeywordTags

FrameOf(content) == SelectSeq(content.lines, IsFrameLine)

\* C9: do_migrate_rating followed by do_migrate_keywords keeps every line
\* outside the keyword containers and the inserted lines, in order, keeps
\* the rating lines the text had, neither drops nor adds the final line
\* terminator, and returns the input text when neither splice applies.
C9_Frame ==
  Patched =>
    /\ FrameOf(patched.val) = FrameOf(tgt)
    /\ c1.rating # None => RatingLinesOf(patched.val) = RatingLinesOf(tgt)
    /\ patched.val.nl = tgt.nl
    /\ (~(dt.rating # None /\ c1.rating = None) /\ dt.keywords \ c1.keywords = {})
         => patched.val = tgt

(* ====================== claims about a run (SpecRun) =================== *)

\* the last step was a process_file call of the migration tool
Processed == status # "off" /\ ev # NoEvent

HasCloseMarker(content) == IndexOf(content.lines, DescCloseLine) # 0

LineSet(lines) == {lines[i] : i \in 1..Len(lines)}

\* C1: with --migrate, a pair whose target exists, whose records classify as
\* YES or MERGE and whose target text has the closing marker line has its
\* target overwritten with the patched text and one "(migrate)" line
\* printed; source {3, {a}} and target {none, {b}} leave a target with
\* rating 3 and keywords {a, b}.
C1_ApplyWritesMigrateAndMerge ==
  (Processed /\ mode /\ ev.seen.extracted /\ ev.seen.outcome \in {YES, MERGE}
     /\ HasCloseMarker(ev.before)) =>
    /\ ev.seen.wrote
    /\ ev.after # ev.before
    /\ \E l \in LineSet(ev.lines) : l.tag = "(migrate)" /\ l.path = ev.target
    /\ (ev.seen.dt = XmpData(Some(3), Kw1) /\ ev.seen.c1 = XmpData(None, Kw2))
         => read_c1_xmp_data(ev.after).val = XmpData(Some(3), Kw1 \cup Kw2)

\* C4: in a run every target is written at most once; a call writes only
\* with --migrate, an existing target and outcome YES or MERGE; a call
\* without --migrate, with outcome NO or CONFLICT, or whose patch raised
\* leaves the target text as it was.
C4_WriteDiscipline ==
  status # "off" =>
    /\ \A n \in DOMAIN writes : writes[n] <= 1
    /\ ev # NoEvent =>
         /\ ev.seen.wrote =>
              (mode /\ ev.seen.existed /\ ev.seen.outcome \in {YES, MERGE})
         /\ (~mode \/ ev.seen.outcome \in {NO, CONFLICT} \/ ev.exc # "")
              => ev.after = ev.before

\* C7: a failure on one pair does not abort the run: no exception leaves
\* main while sidecars matching '*.ARW.xmp' are still to be processed.
C7_ErrorLocality ==
  ~(status = "crashed" /\ \E file \in todo : FnMatchArwXmp(file))

\* C8: without --migrate, a processed pair with something to report (outcome
\* YES, MERGE or CONFLICT) gets exactly one line, naming the target path,
\* both records and the outcome, and the line carries "(merge)" exactly when
\* the outcome is MERGE.
C8_DryRunReport ==
  (Processed /\ ~mode /\ ev.seen.extracted /\ ev.seen.outcome # NO) =>
    /\ Len(ev.lines) = 1
    /\ ev.lines[1].path = ev.target
    /\ ev.lines[1].dt = ev.seen.dt
    /\ ev.lines[1].c1 = ev.seen.c1
    /\ ev.lines[1].tag = (IF ev.seen.outcome = CONFLICT THEN "(conflict)" ELSE "(show)")
    /\ ev.lines[1].merge <=> (ev.seen.outcome = MERGE)

(* ================== claims about a deletion run (SpecDelete) =========== *)

\* C10: for a source sidecar with a negative rating, process_file without
\* --delete removes nothing, and the photo path it reports "(show)" is
\* reported "(delete)" and removed by process_file with --delete on the same
\* directory; and process_file with --delete removes a file exactly when
\* process_file without it reports the pair.
C10_DryRunAgreesWithDelete ==
  (status # "off" /\ ev # NoEvent /\ ev.dry.exc = "") =>
    /\ ev.dry.fs = ev.before
    /\ ev.dry.negative =>
         \A l \in LineSet(ev.dry.lines) :
           /\ l.tag = "(show)"
           /\ DeleteLine(l.path, "(delete)") \in LineSet(ev.app.lines)
           /\ l.path \in DOMAIN ev.before
           /\ l.path \notin DOMAIN ev.app.fs
    /\ (ev.app.fs # ev.before) <=> (ev.dry.lines # <<>>)

====
